---- MODULE Spec2Model ----
(***************************************************************************)
(* Model of two parts of the workbench:                                    *)
(*  - ExtensionService.pickRunningLocation (browser extension service),    *)
(*    the placement policy of an extension, run one loop iteration at a    *)
(*    time;                                                                *)
(*  - the Electron preload script (preload.js): the bridge it exposes to   *)
(*    the renderer over Electron's ipcRenderer and node's process.         *)
(***************************************************************************)
EXTENDS Integers, Sequences, FiniteSets, TLC

\* ---------------------------------------------------------------------------
\* Bounds of the model
\* ---------------------------------------------------------------------------

\* longest extensionKinds list handed to pickRunningLocation
MaxKinds == 3

\* most listeners the renderer keeps registered on ipcRenderer at a time
MaxRendererListeners == 1

\* ---------------------------------------------------------------------------
\* ExtensionService.pickRunningLocation
\* ---------------------------------------------------------------------------

\* ExtensionKind: 'ui' | 'workspace' | 'web'
ExtensionKind == {"ui", "workspace", "web"}

\* ExtensionRunningPreference
ExtensionRunningPreference == {"None", "Local", "Remote"}

\* ExtensionRunningLocation
ExtensionRunningLocation == {"None", "LocalWebWorker", "Remote"}

\* entries of the extensionKinds argument: the three kinds and a string that
\* is none of them
KindArguments == ExtensionKind \cup {"unknown"}

\* all extensionKinds lists of at most MaxKinds entries
KindLists == UNION {[1..n -> KindArguments] : n \in 0..MaxKinds}

VARIABLES
    pc,                   \* position in pickRunningLocation: idle, loop, after, done
    extensionKinds,       \* argument
    isInstalledLocally,   \* argument
    isInstalledRemotely,  \* argument
    preference,           \* argument
    idx,                  \* position of the for-of loop in extensionKinds
    result,               \* local: ExtensionRunningLocation[]
    canRunRemotely,       \* local
    ret                   \* the value returned, "pending" before the return

pickVars == <<pc, extensionKinds, isInstalledLocally, isInstalledRemotely,
              preference, idx, result, canRunRemotely, ret>>

\* ---------------------------------------------------------------------------
\* preload.js: state
\* ---------------------------------------------------------------------------

VARIABLES
    windowConfigIpcChannel, \* parseArgv('vscode-window-config')
    configuration,          \* resolveConfiguration: pending, resolved, rejected
    processEnv,             \* process.env
    resolvedEnv,            \* 0 for undefined, else the promise (its number)
    promises,               \* promises made by resolveEnv: pending or resolved
    waiters,                \* userEnv of the callers waiting on resolvedEnv
    ipcListeners,           \* listeners registered on Electron's ipcRenderer
    shellEnvFetches,        \* 'vscode:fetchShellEnv' sends made by resolveEnv
    shellEnvListeners,      \* 'vscode:acceptShellEnv' listeners made by resolveEnv
    op,                     \* the last call or event
    threw,                  \* the last call threw
    retVal,                 \* the value the last call returned
    hostCalls               \* calls of ipcRenderer, webFrame, crashReporter and
                            \* process made by the last step

preloadVars == <<windowConfigIpcChannel, configuration, processEnv, resolvedEnv,
                 promises, waiters, ipcListeners, shellEnvFetches,
                 shellEnvListeners, op, threw, retVal, hostCalls>>

\* everything but the outcome of the last call
preloadState == <<windowConfigIpcChannel, configuration, processEnv, resolvedEnv,
                  promises, waiters, ipcListeners, shellEnvFetches,
                  shellEnvListeners>>

\* ---------------------------------------------------------------------------
\* ExtensionService: state
\* ---------------------------------------------------------------------------

VARIABLES
    servicePc,              \* constructed, scanning, scanned, registered
    remoteAgentConnection,  \* _remoteAgentService.getConnection()
    disabledExtensions,     \* what _checkEnabledAndProposedAPI filters out
    fetches,                \* the three promises of Promise.all
    runningLocation,        \* _runningLocation
    registry,               \* _registry: the extensions registered
    remoteInitData,         \* _remoteInitData
    extensionHosts,         \* the hosts made by _createExtensionHosts
    remoteGetInitData,      \* getInitData of the remote host's data provider
    localGetInitData        \* getInitData of the web worker host's data provider

serviceVars == <<servicePc, remoteAgentConnection, disabledExtensions, fetches,
                 runningLocation, registry, remoteInitData, extensionHosts,
                 remoteGetInitData, localGetInitData>>

vars == <<pickVars, preloadVars, serviceVars>>

\* ---------------------------------------------------------------------------
\* ExtensionService.pickRunningLocation: the steps
\* ---------------------------------------------------------------------------

PickInit ==
    /\ pc = "idle"
    /\ extensionKinds = <<>>
    /\ isInstalledLocally = FALSE
    /\ isInstalledRemotely = FALSE
    /\ preference = "None"
    /\ idx = 1
    /\ result = <<>>
    /\ canRunRemotely = FALSE
    /\ ret = "pending"

\* entry of pickRunningLocation: the arguments are bound, the locals
\* initialised
PickCall ==
    /\ pc = "idle"
    /\ \E kinds \in KindLists, l \in BOOLEAN, r \in BOOLEAN,
          p \in ExtensionRunningPreference :
          /\ extensionKinds' = kinds
          /\ isInstalledLocally' = l
          /\ isInstalledRemotely' = r
          /\ preference' = p
    /\ idx' = 1
    /\ result' = <<>>
    /\ canRunRemotely' = FALSE
    /\ ret' = "pending"
    /\ pc' = "loop"
    /\ UNCHANGED <<preloadVars, serviceVars>>

\* variant of UiReturns: the preference is not consulted
UiReturnsAnyPreference(kind) ==
    kind = "ui" /\ isInstalledRemotely

\* the 'ui' branch of the loop body returns
UiReturns(kind) ==
    kind = "ui" /\ isInstalledRemotely /\ preference = "Remote"

\* variant of UiDefers: isInstalledRemotely is not consulted
UiDefersNotInstalled(kind) ==
    kind = "ui" /\ preference # "Remote"

\* the 'ui' branch of the loop body sets canRunRemotely
UiDefers(kind) ==
    kind = "ui" /\ isInstalledRemotely /\ preference # "Remote"

\* variant of WorkspaceReturns: preference None is not accepted
WorkspaceReturnsRemoteOnly(kind) ==
    kind = "workspace" /\ isInstalledRemotely /\ preference = "Remote"

\* the 'workspace' branch of the loop body returns
WorkspaceReturns(kind) ==
    kind = "workspace" /\ isInstalledRemotely /\ preference \in {"None", "Remote"}

\* the 'workspace' branch of the loop body pushes a candidate
WorkspaceDefers(kind) ==
    kind = "workspace" /\ isInstalledRemotely /\ preference \notin {"None", "Remote"}

\* variant of WebReturns: preference None is not accepted
WebReturnsLocalOnly(kind) ==
    kind = "web" /\ isInstalledLocally /\ preference = "Local"

\* variant of WebReturns: preference Local is not accepted
WebReturnsNoneOnly(kind) ==
    kind = "web" /\ isInstalledLocally /\ preference = "None"

\* the 'web' branch of the loop body returns
WebReturns(kind) ==
    kind = "web" /\ isInstalledLocally /\ preference \in {"None", "Local"}

\* the 'web' branch of the loop body pushes a candidate
WebDefers(kind) ==
    kind = "web" /\ isInstalledLocally /\ preference \notin {"None", "Local"}

\* one iteration of `for (const extensionKind of extensionKinds)`
PickScanKind ==
    /\ pc = "loop"
    /\ idx <= Len(extensionKinds)
    /\ LET kind == extensionKinds[idx] IN
       IF UiReturns(kind) \/ WorkspaceReturns(kind) THEN
            /\ ret' = "Remote"
            /\ pc' = "done"
            /\ UNCHANGED <<idx, result, canRunRemotely>>
       ELSE IF WebReturns(kind) THEN
            /\ ret' = "LocalWebWorker"
            /\ pc' = "done"
            /\ UNCHANGED <<idx, result, canRunRemotely>>
       ELSE
            /\ canRunRemotely' = (canRunRemotely \/ UiDefers(kind))
            /\ result' = IF WorkspaceDefers(kind) THEN Append(result, "Remote")
                         ELSE IF WebDefers(kind) THEN Append(result, "LocalWebWorker")
                         ELSE result
            /\ idx' = idx + 1
            /\ UNCHANGED <<pc, ret>>
    /\ UNCHANGED <<extensionKinds, isInstalledLocally, isInstalledRemotely, preference>>
    /\ UNCHANGED <<preloadVars, serviceVars>>

\* the loop is exhausted
PickLoopEnd ==
    /\ pc = "loop"
    /\ idx > Len(extensionKinds)
    /\ pc' = "after"
    /\ UNCHANGED <<extensionKinds, isInstalledLocally, isInstalledRemotely,
                   preference, idx, result, canRunRemotely, ret>>
    /\ UNCHANGED <<preloadVars, serviceVars>>

\* variant of PickFinish: the last resort candidate is not appended
PickFinishNoLastResort ==
    /\ pc = "after"
    /\ ret' = IF Len(result) > 0 THEN result[1] ELSE "None"
    /\ pc' = "done"
    /\ UNCHANGED <<extensionKinds, isInstalledLocally, isInstalledRemotely,
                   preference, idx, result, canRunRemotely>>
    /\ UNCHANGED <<preloadVars, serviceVars>>

\* the code after the loop: the last resort candidate and the return
PickFinish ==
    /\ pc = "after"
    /\ LET final == IF canRunRemotely THEN Append(result, "Remote") ELSE result IN
         /\ result' = final
         /\ ret' = IF Len(final) > 0 THEN final[1] ELSE "None"
    /\ pc' = "done"
    /\ UNCHANGED <<extensionKinds, isInstalledLocally, isInstalledRemotely,
                   preference, idx, canRunRemotely>>
    /\ UNCHANGED <<preloadVars, serviceVars>>

PickNext == PickCall \/ PickScanKind \/ PickLoopEnd \/ PickFinish

\* ---------------------------------------------------------------------------
\* preload.js: values
\* ---------------------------------------------------------------------------

\* a JavaScript string, as the sequence of its characters
Str(chars) == [chars |-> chars]

\* the JavaScript value undefined (a missing argument)
Undefined == [undefined |-> TRUE]

\* 'vscode:'
VscodePrefix == <<"v", "s", "c", "o", "d", "e", ":">>

\* 'vscode:acceptShellEnv'
AcceptShellEnvChannel ==
    Str(VscodePrefix \o <<"a", "c", "c", "e", "p", "t", "S", "h", "e", "l", "l", "E", "n", "v">>)

\* 'vscode:fetchShellEnv'
FetchShellEnvChannel ==
    Str(VscodePrefix \o <<"f", "e", "t", "c", "h", "S", "h", "e", "l", "l", "E", "n", "v">>)

\* channel arguments the renderer hands to the bridge: missing, '', 'vscode'
\* (the prefix cut short), 'xvscode:a' (the prefix not at the start),
\* 'vscode:' (the bare prefix) and 'vscode:acceptShellEnv'
BridgeChannels ==
    { Undefined,
      Str(<<>>),
      Str(<<"v", "s", "c", "o", "d", "e">>),
      Str(<<"x">> \o VscodePrefix \o <<"a">>),
      Str(VscodePrefix),
      AcceptShellEnvChannel }

\* String.prototype.startsWith
StartsWith(str, prefix) ==
    /\ Len(str.chars) >= Len(prefix)
    /\ SubSeq(str.chars, 1, Len(prefix)) = prefix

\* !channel : undefined and the empty string are falsy
Falsy(channel) == channel = Undefined \/ channel = Str(<<>>)

\* variant of ValidateIPC: only a missing channel is refused
ValidateIPCNoPrefixCheck(channel) == ~Falsy(channel)

\* validateIPC(channel): TRUE when it returns true, FALSE when it throws
ValidateIPC(channel) == ~(Falsy(channel) \/ ~StartsWith(channel, VscodePrefix))

\* event types the renderer hands to process.on
ProcessEventTypes == {"uncaughtException", "unhandledRejection", "exit", "undefined"}

\* variant of ValidateProcessEventType: every type is accepted
ValidateProcessEventTypeAny(type) == TRUE

\* validateProcessEventType(type): TRUE when it returns true, FALSE when it
\* throws
ValidateProcessEventType(type) == ~(type # "uncaughtException")

\* keys of the environments
EnvKeys == {"PATH", "LANG"}

\* marks a key an environment does not define
Absent == "<absent>"

\* process.env when the preload script starts
InitialEnv == [k \in EnvKeys |-> IF k = "LANG" THEN "os" ELSE Absent]

\* the userEnv arguments of resolveEnv and of the window configuration
UserEnvs ==
    { [k \in EnvKeys |-> Absent],
      [k \in EnvKeys |-> IF k = "PATH" THEN "user1" ELSE Absent],
      [k \in EnvKeys |-> "user2"] }

\* the shell environments the main process answers with
ShellEnvs ==
    { [k \in EnvKeys |-> "shell"],
      [k \in EnvKeys |-> IF k = "LANG" THEN "shell" ELSE Absent] }

\* Object.assign(target, source) on environments
ObjectAssign(target, source) ==
    [k \in EnvKeys |-> IF source[k] # Absent THEN source[k] ELSE target[k]]

\* variant of AcceptShellEnv: Object.assign(process.env, userEnv, shellEnv)
AcceptShellEnvShellLast(env, shellEnv, userEnv) ==
    ObjectAssign(ObjectAssign(env, userEnv), shellEnv)

\* the body of the 'vscode:acceptShellEnv' listener:
\* Object.assign(process.env, shellEnv, userEnv)
AcceptShellEnv(env, shellEnv, userEnv) ==
    ObjectAssign(ObjectAssign(env, shellEnv), userEnv)

\* listeners of the renderer
RendererListeners == {"listenerA"}

\* zoom levels
ZoomLevels == {0, 1}

\* ---------------------------------------------------------------------------
\* preload.js: start
\* ---------------------------------------------------------------------------

\* values of --vscode-window-config=... in process.argv: none, a channel
\* without the prefix, a channel with it
WindowConfigChannels ==
    { Undefined,
      Str(<<"c", "o", "n", "f", "i", "g">>),
      Str(VscodePrefix \o <<"c", "o", "n", "f", "i", "g">>) }

\* a call of a method of ipcRenderer
IpcCall(method, channel) == [api |-> method, channel |-> channel]

\* the state after the script has run: resolveConfiguration has invoked the
\* window configuration channel or has failed
PreloadInit ==
    /\ windowConfigIpcChannel \in WindowConfigChannels
    /\ configuration = IF Falsy(windowConfigIpcChannel) THEN "rejected"
                       ELSE IF ValidateIPC(windowConfigIpcChannel) THEN "pending"
                       ELSE "rejected"
    /\ processEnv = InitialEnv
    /\ resolvedEnv = 0
    /\ promises = <<>>
    /\ waiters = {}
    /\ ipcListeners = <<>>
    /\ shellEnvFetches = 0
    /\ shellEnvListeners = 0
    /\ op = [name |-> "start"]
    /\ threw = FALSE
    /\ retVal = Undefined
    /\ hostCalls = IF Falsy(windowConfigIpcChannel) THEN <<>>
                   ELSE IF ValidateIPC(windowConfigIpcChannel)
                   THEN <<IpcCall("ipcRenderer.invoke", windowConfigIpcChannel)>>
                   ELSE <<>>

\* a listener the renderer registers through the bridge
RendererListener(channel, once, listener) ==
    [channel |-> channel, once |-> once, fn |-> [renderer |-> listener]]

\* the listener resolveEnv registers: it keeps userEnv and resolves promise
ShellEnvListener(userEnv, promise) ==
    [channel |-> AcceptShellEnvChannel, once |-> TRUE,
     fn |-> [userEnv |-> userEnv, promise |-> promise]]

\* the listener was made by resolveEnv
IsShellEnvListener(l) == "userEnv" \in DOMAIN l.fn

\* number of listeners the renderer has registered on ipcRenderer
RendererListenerCount ==
    Cardinality({j \in 1..Len(ipcListeners) : ~IsShellEnvListener(ipcListeners[j])})

\* ---------------------------------------------------------------------------
\* preload.js: globals.ipcRenderer
\* ---------------------------------------------------------------------------

\* what send, postMessage and invoke share: validate, then pass on
BridgePassOn(method, channel) ==
    /\ op' = [name |-> method, channel |-> channel]
    /\ retVal' = Undefined
    /\ IF ValidateIPC(channel)
       THEN threw' = FALSE /\ hostCalls' = <<IpcCall(method, channel)>>
       ELSE threw' = TRUE /\ hostCalls' = <<>>
    /\ UNCHANGED preloadState
    /\ UNCHANGED <<pickVars, serviceVars>>

\* globals.ipcRenderer.send(channel, ...args)
IpcSend ==
    \E channel \in BridgeChannels : BridgePassOn("ipcRenderer.send", channel)

\* globals.ipcRenderer.postMessage(channel, message, transfer)
IpcPostMessage ==
    \E channel \in BridgeChannels : BridgePassOn("ipcRenderer.postMessage", channel)

\* globals.ipcRenderer.invoke(channel, ...args)
IpcInvoke ==
    \E channel \in BridgeChannels : BridgePassOn("ipcRenderer.invoke", channel)

\* what on and once share: validate, then register the listener
BridgeListen(method, once, channel, listener) ==
    /\ op' = [name |-> method, channel |-> channel]
    /\ retVal' = Undefined
    /\ IF ValidateIPC(channel)
       THEN /\ RendererListenerCount < MaxRendererListeners
            /\ threw' = FALSE
            /\ hostCalls' = <<IpcCall(method, channel)>>
            /\ ipcListeners' = Append(ipcListeners, RendererListener(channel, once, listener))
       ELSE /\ threw' = TRUE
            /\ hostCalls' = <<>>
            /\ UNCHANGED ipcListeners
    /\ UNCHANGED <<windowConfigIpcChannel, configuration, processEnv, resolvedEnv,
                   promises, waiters, shellEnvFetches, shellEnvListeners>>
    /\ UNCHANGED <<pickVars, serviceVars>>

\* globals.ipcRenderer.on(channel, listener)
IpcOn ==
    \E channel \in BridgeChannels, listener \in RendererListeners :
        BridgeListen("ipcRenderer.on", FALSE, channel, listener)

\* globals.ipcRenderer.once(channel, listener)
IpcOnce ==
    \E channel \in BridgeChannels, listener \in RendererListeners :
        BridgeListen("ipcRenderer.once", TRUE, channel, listener)

\* EventEmitter.removeListener: the most recently added instance of the
\* listener on the channel is removed, if there is one
RemoveListener(listeners, channel, listener) ==
    LET hits == {j \in 1..Len(listeners) :
                    /\ listeners[j].channel = channel
                    /\ listeners[j].fn = [renderer |-> listener]}
    IN IF hits = {} THEN listeners
       ELSE LET last == CHOOSE j \in hits : \A k \in hits : k <= j
            IN SubSeq(listeners, 1, last - 1) \o SubSeq(listeners, last + 1, Len(listeners))

\* globals.ipcRenderer.removeListener(channel, listener)
IpcRemoveListener ==
    \E channel \in BridgeChannels, listener \in RendererListeners :
        /\ op' = [name |-> "ipcRenderer.removeListener", channel |-> channel]
        /\ retVal' = Undefined
        /\ IF ValidateIPC(channel)
           THEN /\ threw' = FALSE
                /\ hostCalls' = <<IpcCall("ipcRenderer.removeListener", channel)>>
                /\ ipcListeners' = RemoveListener(ipcListeners, channel, listener)
           ELSE /\ threw' = TRUE
                /\ hostCalls' = <<>>
                /\ UNCHANGED ipcListeners
        /\ UNCHANGED <<windowConfigIpcChannel, configuration, processEnv, resolvedEnv,
                       promises, waiters, shellEnvFetches, shellEnvListeners>>
        /\ UNCHANGED <<pickVars, serviceVars>>

\* ---------------------------------------------------------------------------
\* preload.js: globals.webFrame, globals.crashReporter
\* ---------------------------------------------------------------------------

\* level arguments of setZoomLevel: numbers and a string
ZoomArguments ==
    {[type |-> "number", value |-> z] : z \in ZoomLevels}
        \cup {[type |-> "string", value |-> "1"]}

\* globals.webFrame.setZoomLevel(level)
WebFrameSetZoomLevel ==
    \E level \in ZoomArguments :
        /\ op' = [name |-> "webFrame.setZoomLevel", level |-> level]
        /\ threw' = FALSE
        /\ retVal' = Undefined
        /\ hostCalls' = IF level.type = "number"
                        THEN <<[api |-> "webFrame.setZoomLevel", level |-> level.value]>>
                        ELSE <<>>
        /\ UNCHANGED preloadState
        /\ UNCHANGED <<pickVars, serviceVars>>

\* globals.crashReporter.addExtraParameter(key, value)
CrashReporterAddExtraParameter ==
    \E key \in {"key"}, value \in {"value"} :
        /\ op' = [name |-> "crashReporter.addExtraParameter", key |-> key]
        /\ threw' = FALSE
        /\ retVal' = Undefined
        /\ hostCalls' = <<[api |-> "crashReporter.addExtraParameter",
                           key |-> key, value |-> value]>>
        /\ UNCHANGED preloadState
        /\ UNCHANGED <<pickVars, serviceVars>>

\* ---------------------------------------------------------------------------
\* preload.js: globals.process
\* ---------------------------------------------------------------------------

\* get env() { return process.env; }
ProcessEnvGetter == processEnv

\* get type() { return 'renderer'; }
ProcessTypeGetter == "renderer"

\* variant of ResolveEnvIsFresh: the cached promise is not consulted
ResolveEnvAlwaysFresh == TRUE

\* if (!resolvedEnv)
ResolveEnvIsFresh == resolvedEnv = 0

\* resolveEnv(userEnv), reached through globals.process.resolveEnv(userEnv)
ProcessResolveEnv ==
    \E userEnv \in UserEnvs :
        /\ op' = [name |-> "process.resolveEnv", userEnv |-> userEnv]
        /\ threw' = FALSE
        /\ IF ResolveEnvIsFresh
           THEN /\ processEnv' = ObjectAssign(processEnv, userEnv)
                /\ promises' = Append(promises, "pending")
                /\ resolvedEnv' = Len(promises) + 1
                /\ ipcListeners' = Append(ipcListeners,
                                          ShellEnvListener(userEnv, Len(promises) + 1))
                /\ shellEnvListeners' = shellEnvListeners + 1
                /\ shellEnvFetches' = shellEnvFetches + 1
                /\ hostCalls' = <<IpcCall("ipcRenderer.once", AcceptShellEnvChannel),
                                  IpcCall("ipcRenderer.send", FetchShellEnvChannel)>>
           ELSE /\ hostCalls' = <<>>
                /\ UNCHANGED <<processEnv, promises, resolvedEnv, ipcListeners,
                               shellEnvListeners, shellEnvFetches>>
        /\ retVal' = resolvedEnv'
        /\ waiters' = IF promises'[resolvedEnv'] = "pending"
                      THEN waiters \cup {userEnv} ELSE waiters
        /\ UNCHANGED <<windowConfigIpcChannel, configuration>>
        /\ UNCHANGED <<pickVars, serviceVars>>

\* globals.process.getProcessMemoryInfo()
ProcessGetProcessMemoryInfo ==
    /\ op' = [name |-> "process.getProcessMemoryInfo"]
    /\ threw' = FALSE
    /\ retVal' = [memoryInfo |-> TRUE]
    /\ hostCalls' = <<[api |-> "process.getProcessMemoryInfo"]>>
    /\ UNCHANGED preloadState
    /\ UNCHANGED <<pickVars, serviceVars>>

\* globals.process.on(type, callback)
ProcessOn ==
    \E type \in ProcessEventTypes, callback \in RendererListeners :
        /\ op' = [name |-> "process.on", type |-> type]
        /\ retVal' = Undefined
        /\ IF ValidateProcessEventType(type)
           THEN /\ threw' = FALSE
                /\ hostCalls' = <<[api |-> "process.on", type |-> type,
                                   callback |-> callback]>>
           ELSE /\ threw' = TRUE
                /\ hostCalls' = <<>>
        /\ UNCHANGED preloadState
        /\ UNCHANGED <<pickVars, serviceVars>>

\* ---------------------------------------------------------------------------
\* preload.js: what the main process makes happen
\* ---------------------------------------------------------------------------

\* process.env after the resolveEnv listeners among `listeners` have run, in
\* the order of their registration
RECURSIVE EnvAfterListeners(_, _, _)
EnvAfterListeners(listeners, env, shellEnv) ==
    IF listeners = <<>> THEN env
    ELSE LET l == Head(listeners)
         IN EnvAfterListeners(Tail(listeners),
                IF IsShellEnvListener(l)
                THEN AcceptShellEnv(env, shellEnv, l.fn.userEnv)
                ELSE env,
                shellEnv)

\* the promises the resolveEnv listeners among `listeners` resolve
ResolvedBy(listeners) ==
    {listeners[j].fn.promise :
        j \in {i \in 1..Len(listeners) : IsShellEnvListener(listeners[i])}}

\* the main process sends 'vscode:acceptShellEnv' with the shell environment:
\* every listener of the channel runs, the once listeners are removed
MainAcceptsShellEnv ==
    \E shellEnv \in ShellEnvs :
        /\ \E j \in 1..Len(ipcListeners) : ipcListeners[j].channel = AcceptShellEnvChannel
        /\ op' = [name |-> "main.acceptShellEnv", shellEnv |-> shellEnv]
        /\ threw' = FALSE
        /\ retVal' = Undefined
        /\ hostCalls' = <<>>
        /\ LET keep(l) == ~(l.channel = AcceptShellEnvChannel /\ l.once)
               done == ResolvedBy(ipcListeners)
           IN /\ processEnv' = EnvAfterListeners(ipcListeners, processEnv, shellEnv)
              /\ promises' = [j \in DOMAIN promises |->
                                IF j \in done THEN "resolved" ELSE promises[j]]
              /\ waiters' = IF resolvedEnv \in done THEN {} ELSE waiters
              /\ ipcListeners' = SelectSeq(ipcListeners, keep)
        /\ UNCHANGED <<windowConfigIpcChannel, configuration, resolvedEnv,
                       shellEnvFetches, shellEnvListeners>>
        /\ UNCHANGED <<pickVars, serviceVars>>

\* the main process sends on another channel the renderer listens on: the
\* renderer's listeners run, the once listeners are removed
MainSends ==
    \E j \in 1..Len(ipcListeners) :
        LET channel == ipcListeners[j].channel
            keep(l) == ~(l.channel = channel /\ l.once)
        IN /\ channel # AcceptShellEnvChannel
           /\ op' = [name |-> "main.send", channel |-> channel]
           /\ threw' = FALSE
           /\ retVal' = Undefined
           /\ hostCalls' = <<>>
           /\ ipcListeners' = SelectSeq(ipcListeners, keep)
           /\ UNCHANGED <<windowConfigIpcChannel, configuration, processEnv, resolvedEnv,
                          promises, waiters, shellEnvFetches, shellEnvListeners>>
           /\ UNCHANGED <<pickVars, serviceVars>>

\* window configurations the main process answers with: zoomLevel may be
\* missing
Configurations ==
    {[userEnv |-> u] : u \in UserEnvs}
        \cup {[userEnv |-> u, zoomLevel |-> z] : u \in UserEnvs, z \in ZoomLevels}

\* the main process answers the invoke of resolveConfiguration
ConfigurationResolves ==
    \E config \in Configurations :
        /\ configuration = "pending"
        /\ configuration' = "resolved"
        /\ op' = [name |-> "main.configuration", config |-> config]
        /\ threw' = FALSE
        /\ retVal' = Undefined
        /\ processEnv' = ObjectAssign(processEnv, config.userEnv)
        /\ hostCalls' = <<[api |-> "webFrame.setZoomLevel",
                           level |-> IF "zoomLevel" \in DOMAIN config
                                     THEN config.zoomLevel ELSE 0]>>
        /\ UNCHANGED <<windowConfigIpcChannel, resolvedEnv, promises, waiters,
                       ipcListeners, shellEnvFetches, shellEnvListeners>>
        /\ UNCHANGED <<pickVars, serviceVars>>

PreloadNext ==
    \/ IpcSend
    \/ IpcPostMessage
    \/ IpcInvoke
    \/ IpcOn
    \/ IpcOnce
    \/ IpcRemoveListener
    \/ WebFrameSetZoomLevel
    \/ CrashReporterAddExtraParameter
    \/ ProcessResolveEnv
    \/ ProcessGetProcessMemoryInfo
    \/ ProcessOn
    \/ MainAcceptsShellEnv
    \/ MainSends
    \/ ConfigurationResolves

\* ---------------------------------------------------------------------------
\* ExtensionService: extension hosts and remote init data
\* ---------------------------------------------------------------------------

\* the JavaScript value null
Null == [null |-> TRUE]

\* a promise that has not resolved
Pending == [pending |-> TRUE]

\* a promise resolved with the value
Resolved(value) == [value |-> value]

\* identifiers of the extensions the scans may find
ExtensionIds == {"ext.workspace", "ext.web"}

\* remote authorities of the remote agent connection
RemoteAuthorities == {"ssh-remote+host"}

\* what remoteAgentService.getEnvironment() resolves with under a
\* connection: an environment, or null
RemoteEnvironments ==
    {Null, [pid |-> 4711, appRoot |-> "/remote/app"]}

\* the state after the constructor: nothing is scanned, no host is made
ServiceInit ==
    /\ servicePc = "constructed"
    /\ remoteAgentConnection \in {Null} \cup {[remoteAuthority |-> a] : a \in RemoteAuthorities}
    /\ disabledExtensions \in {{}, {"ext.web"}}
    /\ fetches = [local |-> Null, env |-> Null, remote |-> Null]
    /\ runningLocation = [e \in {} |-> "None"]
    /\ registry = {}
    /\ remoteInitData = Null
    /\ extensionHosts = <<>>
    /\ remoteGetInitData = [state |-> "idle"]
    /\ localGetInitData = [state |-> "idle"]

\* _createExtensionHosts: the web worker host, and the remote host when there
\* is a remote agent connection
CreateExtensionHosts ==
    LET webWorkerExtHost == [kind |-> "WebWorkerExtensionHost"]
        hosts == <<webWorkerExtHost>>
    IN IF remoteAgentConnection # Null
       THEN Append(hosts, [kind |-> "RemoteExtensionHost",
                           remoteAuthority |-> remoteAgentConnection.remoteAuthority])
       ELSE hosts

\* a remote extension host has been made
HasRemoteExtensionHost ==
    \E j \in 1..Len(extensionHosts) : extensionHosts[j].kind = "RemoteExtensionHost"

\* _initialize, once the lifecycle is ready and the installed extensions are
\* initialised: the extension hosts are made and _scanAndHandleExtensions
\* starts its three fetches
Initialize ==
    /\ servicePc = "constructed"
    /\ servicePc' = "scanning"
    /\ extensionHosts' = CreateExtensionHosts
    /\ fetches' = [local |-> Pending, env |-> Pending, remote |-> Pending]
    /\ UNCHANGED <<remoteAgentConnection, disabledExtensions, runningLocation,
                   registry, remoteInitData, remoteGetInitData, localGetInitData>>
    /\ UNCHANGED <<pickVars, preloadVars>>

\* this._scanWebExtensions() resolves
ScanWebExtensionsResolves ==
    \E found \in SUBSET ExtensionIds :
        /\ servicePc = "scanning"
        /\ fetches.local = Pending
        /\ fetches' = [fetches EXCEPT !.local = Resolved(found)]
        /\ UNCHANGED <<servicePc, remoteAgentConnection, disabledExtensions,
                       runningLocation, registry, remoteInitData, extensionHosts,
                       remoteGetInitData, localGetInitData>>
        /\ UNCHANGED <<pickVars, preloadVars>>

\* this._remoteAgentService.getEnvironment() resolves: with null when there
\* is no connection, else with an environment or with null
GetEnvironmentResolves ==
    \E env \in RemoteEnvironments :
        /\ servicePc = "scanning"
        /\ fetches.env = Pending
        /\ remoteAgentConnection = Null => env = Null
        /\ fetches' = [fetches EXCEPT !.env = Resolved(env)]
        /\ UNCHANGED <<servicePc, remoteAgentConnection, disabledExtensions,
                       runningLocation, registry, remoteInitData, extensionHosts,
                       remoteGetInitData, localGetInitData>>
        /\ UNCHANGED <<pickVars, preloadVars>>

\* this._remoteAgentService.scanExtensions() resolves: with nothing when
\* there is no connection
ScanExtensionsResolves ==
    \E found \in SUBSET ExtensionIds :
        /\ servicePc = "scanning"
        /\ fetches.remote = Pending
        /\ remoteAgentConnection = Null => found = {}
        /\ fetches' = [fetches EXCEPT !.remote = Resolved(found)]
        /\ UNCHANGED <<servicePc, remoteAgentConnection, disabledExtensions,
                       runningLocation, registry, remoteInitData, extensionHosts,
                       remoteGetInitData, localGetInitData>>
        /\ UNCHANGED <<pickVars, preloadVars>>

\* _checkEnabledAndProposedAPI: the disabled extensions are dropped
CheckEnabledAndProposedAPI(extensions) == extensions \ disabledExtensions

\* _runningLocationClassifier.determineRunningLocation: every extension found
\* gets a location where it is installed
RunningLocationMaps(localExtensions, remoteExtensions) ==
    {m \in [localExtensions \cup remoteExtensions -> ExtensionRunningLocation] :
        \A e \in DOMAIN m :
            /\ m[e] = "LocalWebWorker" => e \in localExtensions
            /\ m[e] = "Remote" => e \in remoteExtensions}

\* filterByRunningLocation
FilterByRunningLocation(extensions, location, desiredRunningLocation) ==
    {ext \in extensions : ext \in DOMAIN location /\ location[ext] = desiredRunningLocation}

\* if (remoteEnv && remoteAgentConnection)
SavesRemoteInitData(remoteEnv) == remoteEnv # Null /\ remoteAgentConnection # Null

\* _scanAndHandleExtensions after Promise.all: the running locations, the
\* registry and the init data of the remote host
ScanAndHandleExtensions ==
    /\ servicePc = "scanning"
    /\ fetches.local # Pending /\ fetches.env # Pending /\ fetches.remote # Pending
    /\ LET localEnabled == CheckEnabledAndProposedAPI(fetches.local.value)
           remoteEnabled == CheckEnabledAndProposedAPI(fetches.remote.value)
           remoteEnv == fetches.env.value
       IN \E location \in RunningLocationMaps(localEnabled, remoteEnabled) :
            LET localExtensions ==
                    FilterByRunningLocation(localEnabled, location, "LocalWebWorker")
                remoteExtensions ==
                    FilterByRunningLocation(remoteEnabled, location, "Remote")
            IN /\ runningLocation' = location
               /\ registry' = remoteExtensions \cup localExtensions
               /\ remoteInitData' =
                    IF SavesRemoteInitData(remoteEnv)
                    THEN [connectionData |-> remoteAgentConnection.remoteAuthority,
                          pid |-> remoteEnv.pid,
                          appRoot |-> remoteEnv.appRoot,
                          extensions |-> remoteExtensions,
                          allExtensions |-> remoteExtensions \cup localExtensions]
                    ELSE remoteInitData
    /\ servicePc' = "scanned"
    /\ UNCHANGED <<remoteAgentConnection, disabledExtensions, fetches,
                   extensionHosts, remoteGetInitData, localGetInitData>>
    /\ UNCHANGED <<pickVars, preloadVars>>

\* _initialize after _scanAndHandleExtensions: the installed extensions count
\* as registered
ReleaseBarrier ==
    /\ servicePc = "scanned"
    /\ servicePc' = "registered"
    /\ UNCHANGED <<remoteAgentConnection, disabledExtensions, fetches,
                   runningLocation, registry, remoteInitData, extensionHosts,
                   remoteGetInitData, localGetInitData>>
    /\ UNCHANGED <<pickVars, preloadVars>>

\* whenInstalledExtensionsRegistered() has resolved
InstalledExtensionsRegistered == servicePc = "registered"

\* the remote host calls getInitData of its data provider, which waits for
\* whenInstalledExtensionsRegistered()
RemoteGetInitDataCalled ==
    /\ HasRemoteExtensionHost
    /\ remoteGetInitData.state = "idle"
    /\ remoteGetInitData' = [state |-> "waiting"]
    /\ UNCHANGED <<servicePc, remoteAgentConnection, disabledExtensions, fetches,
                   runningLocation, registry, remoteInitData, extensionHosts,
                   localGetInitData>>
    /\ UNCHANGED <<pickVars, preloadVars>>

\* getInitData of the remote host resolves: return this._remoteInitData!
RemoteGetInitDataResolves ==
    /\ remoteGetInitData.state = "waiting"
    /\ InstalledExtensionsRegistered
    /\ remoteGetInitData' = [state |-> "resolved", value |-> remoteInitData]
    /\ UNCHANGED <<servicePc, remoteAgentConnection, disabledExtensions, fetches,
                   runningLocation, registry, remoteInitData, extensionHosts,
                   localGetInitData>>
    /\ UNCHANGED <<pickVars, preloadVars>>

\* the web worker host calls getInitData of its data provider, which waits
\* for getExtensions()
LocalGetInitDataCalled ==
    /\ extensionHosts # <<>>
    /\ localGetInitData.state = "idle"
    /\ localGetInitData' = [state |-> "waiting"]
    /\ UNCHANGED <<servicePc, remoteAgentConnection, disabledExtensions, fetches,
                   runningLocation, registry, remoteInitData, extensionHosts,
                   remoteGetInitData>>
    /\ UNCHANGED <<pickVars, preloadVars>>

\* getInitData of the web worker host resolves with the extensions placed in
\* the local web worker
LocalGetInitDataResolves ==
    /\ localGetInitData.state = "waiting"
    /\ InstalledExtensionsRegistered
    /\ localGetInitData' =
         [state |-> "resolved",
          value |-> [autoStart |-> TRUE,
                     extensions |-> FilterByRunningLocation(registry, runningLocation,
                                                            "LocalWebWorker")]]
    /\ UNCHANGED <<servicePc, remoteAgentConnection, disabledExtensions, fetches,
                   runningLocation, registry, remoteInitData, extensionHosts,
                   remoteGetInitData>>
    /\ UNCHANGED <<pickVars, preloadVars>>

ServiceNext ==
    \/ Initialize
    \/ ScanWebExtensionsResolves
    \/ GetEnvironmentResolves
    \/ ScanExtensionsResolves
    \/ ScanAndHandleExtensions
    \/ ReleaseBarrier
    \/ RemoteGetInitDataCalled
    \/ RemoteGetInitDataResolves
    \/ LocalGetInitDataCalled
    \/ LocalGetInitDataResolves

\* ---------------------------------------------------------------------------
\* Specifications
\* ---------------------------------------------------------------------------

Init == PickInit /\ PreloadInit /\ ServiceInit

Next == PickNext \/ PreloadNext \/ ServiceNext

Spec == Init /\ [][Next]_vars

\* the preload script of a window without a window configuration channel,
\* left alone
PreloadQuiet == PreloadInit /\ windowConfigIpcChannel = Undefined

\* an extension service without remote agent connection, left alone
ServiceQuiet == ServiceInit /\ remoteAgentConnection = Null /\ disabledExtensions = {}

\* the start of pickRunningLocation alone
PickStart == PickInit /\ PreloadQuiet /\ ServiceQuiet

\* pickRunningLocation alone
PickSpec == PickStart /\ [][PickNext]_vars

\* the start of the preload script alone
PreloadStart == PickInit /\ PreloadInit /\ ServiceQuiet

\* the preload script alone
PreloadSpec == PreloadStart /\ [][PreloadNext]_vars

\* the start of the extension service alone
ServiceStart == PickInit /\ PreloadQuiet /\ ServiceInit

\* the extension service alone
ServiceSpec == ServiceStart /\ [][ServiceNext]_vars

\* pickRunningLocation is synchronous code: once called it runs to its return
PickFairSpec ==
    /\ PickStart
    /\ [][PickNext]_vars
    /\ WF_vars(PickScanKind) /\ WF_vars(PickLoopEnd) /\ WF_vars(PickFinish)

\* ---------------------------------------------------------------------------
\* Properties of pickRunningLocation
\* ---------------------------------------------------------------------------

\* the list under scan contains the kind
HasKind(kind) == \E j \in 1..Len(extensionKinds) : extensionKinds[j] = kind

\* position of the first entry of the kind, Len + 1 when there is none
FirstIndex(kind) ==
    IF HasKind(kind)
    THEN CHOOSE j \in 1..Len(extensionKinds) :
            /\ extensionKinds[j] = kind
            /\ \A k \in 1..(j - 1) : extensionKinds[k] # kind
    ELSE Len(extensionKinds) + 1

\* the call has returned
Returned == pc = "done"

\* the call has returned from inside the loop
ReturnedInLoop == pc = "done" /\ idx <= Len(extensionKinds)

\* the call has returned the last resort candidate: the loop ended with no
\* candidate and the candidate appended after the loop is the only one
OwedToUi ==
    /\ pc = "done"
    /\ idx > Len(extensionKinds)
    /\ canRunRemotely
    /\ Len(result) = 1

\* C1 as stated: a list with 'workspace', installed remotely, preference None
\* or Remote, always gives Remote.
C1_AsStated ==
    (Returned /\ HasKind("workspace") /\ isInstalledRemotely
        /\ preference \in {"None", "Remote"})
    => ret = "Remote"

\* C1: a list with 'workspace', installed remotely, preference None or Remote,
\* gives Remote, returned from inside the loop no later than the first
\* 'workspace' entry, except when the preference is None, the extension is
\* installed locally and a 'web' entry stands before the first 'workspace'
\* entry: then the result is LocalWebWorker.
C1_WorkspaceRemote ==
    (Returned /\ HasKind("workspace") /\ isInstalledRemotely
        /\ preference \in {"None", "Remote"})
    => IF preference = "None" /\ isInstalledLocally
          /\ FirstIndex("web") < FirstIndex("workspace")
       THEN ret = "LocalWebWorker"
       ELSE ret = "Remote" /\ ReturnedInLoop /\ idx <= FirstIndex("workspace")

\* C1 witness: 'workspace' stands last, behind 'ui' and 'web', and decides.
C1_Witness ==
    /\ Returned
    /\ extensionKinds = <<"ui", "web", "workspace">>
    /\ isInstalledRemotely /\ ~isInstalledLocally
    /\ preference = "None"
    /\ idx = 3
    /\ ret = "Remote"

\* C2 as stated: a list with 'web', installed locally, preference None or
\* Local, always gives LocalWebWorker.
C2_AsStated ==
    (Returned /\ HasKind("web") /\ isInstalledLocally
        /\ preference \in {"None", "Local"})
    => ret = "LocalWebWorker"

\* C2: a list with 'web', installed locally, preference None or Local, gives
\* LocalWebWorker, returned from inside the loop at the first 'web' entry,
\* except when the preference is None, the extension is installed remotely
\* and a 'workspace' entry stands before the first 'web' entry: then the
\* result is Remote.
C2_WebLocal ==
    (Returned /\ HasKind("web") /\ isInstalledLocally
        /\ preference \in {"None", "Local"})
    => IF preference = "None" /\ isInstalledRemotely
          /\ FirstIndex("workspace") < FirstIndex("web")
       THEN ret = "Remote"
       ELSE ret = "LocalWebWorker" /\ ReturnedInLoop /\ idx = FirstIndex("web")

\* C2 witness: 'web' stands last, behind 'workspace' and 'ui', and decides.
C2_Witness ==
    /\ Returned
    /\ extensionKinds = <<"workspace", "ui", "web">>
    /\ isInstalledLocally /\ isInstalledRemotely
    /\ preference = "Local"
    /\ idx = 3
    /\ ret = "LocalWebWorker"

\* C3: a list with 'ui', installed remotely: (a) preference Remote gives
\* Remote; (b) under preference None or Local the last resort candidate is
\* what is returned exactly when the list has no 'workspace' entry and not
\* ('web' entry and installed locally); it is Remote then, and a 'web' entry
\* installed locally without 'workspace' gives LocalWebWorker wherever 'ui'
\* stands.
C3_UiLastResort ==
    (Returned /\ HasKind("ui") /\ isInstalledRemotely)
    => IF preference = "Remote"
       THEN ret = "Remote"
       ELSE /\ OwedToUi <=> (~HasKind("workspace")
                                /\ ~(HasKind("web") /\ isInstalledLocally))
            /\ OwedToUi => ret = "Remote"
            /\ (HasKind("web") /\ isInstalledLocally /\ ~HasKind("workspace"))
                  => ret = "LocalWebWorker"

\* C3 witness: 'ui' stands first and a later 'web' entry, installed locally,
\* decides.
C3_Witness ==
    /\ Returned
    /\ extensionKinds = <<"ui", "web">>
    /\ isInstalledLocally /\ isInstalledRemotely
    /\ preference = "None"
    /\ canRunRemotely
    /\ ret = "LocalWebWorker"

\* C4: under preference Local a list with 'web', installed locally, gives
\* LocalWebWorker, also behind a deferred 'workspace' candidate.
C4_WebWinsUnderLocal ==
    (Returned /\ preference = "Local" /\ HasKind("web") /\ isInstalledLocally)
    => ret = "LocalWebWorker"

\* C4 witness: ['workspace','web'], installed on both sides, preference
\* Local: the 'workspace' candidate is deferred and 'web' returns.
C4_Witness ==
    /\ Returned
    /\ extensionKinds = <<"workspace", "web">>
    /\ isInstalledLocally /\ isInstalledRemotely
    /\ preference = "Local"
    /\ result = <<"Remote">>
    /\ ret = "LocalWebWorker"

\* some kind of the list can run somewhere
Runnable ==
    \/ isInstalledRemotely /\ (HasKind("ui") \/ HasKind("workspace"))
    \/ isInstalledLocally /\ HasKind("web")

\* C5: the result is None exactly when no kind of the list can run anywhere,
\* for every preference.
C5_NoneIffNotRunnable ==
    Returned => (ret = "None" <=> ~Runnable)

\* C5 witness: a 'ui' extension installed remotely under preference Local is
\* placed (Remote), and ['ui'] installed nowhere is not.
C5_Witness ==
    /\ Returned
    /\ extensionKinds = <<"ui">>
    /\ ~isInstalledLocally
    /\ \/ isInstalledRemotely /\ preference = "Local" /\ ret = "Remote"
       \/ ~isInstalledRemotely /\ ret = "None"

\* the result as a function of the arguments alone
ExpectedLocation ==
    LET remoteKind == isInstalledRemotely /\ (HasKind("ui") \/ HasKind("workspace"))
        workspaceRuns == isInstalledRemotely /\ HasKind("workspace")
        webRuns == isInstalledLocally /\ HasKind("web")
    IN CASE preference = "Remote" ->
                IF remoteKind THEN "Remote"
                ELSE IF webRuns THEN "LocalWebWorker" ELSE "None"
         [] preference = "Local" ->
                IF webRuns THEN "LocalWebWorker"
                ELSE IF remoteKind THEN "Remote" ELSE "None"
         [] preference = "None" ->
                IF workspaceRuns /\ (~webRuns \/ FirstIndex("workspace") < FirstIndex("web"))
                THEN "Remote"
                ELSE IF webRuns THEN "LocalWebWorker"
                ELSE IF remoteKind THEN "Remote" ELSE "None"

\* C12: every call returns (it is total), the result is one of the three
\* locations and is the same function of the arguments whatever the path
\* through the loop; Remote is returned only when installed remotely with a
\* 'ui' or 'workspace' kind in the list, LocalWebWorker only when installed
\* locally with a 'web' kind in the list; entries that are none of the three
\* kinds change nothing.
C12_PlacedWhereInstalled ==
    /\ [](Returned =>
            /\ ret \in ExtensionRunningLocation
            /\ ret = ExpectedLocation
            /\ ret = "Remote" =>
                  isInstalledRemotely /\ (HasKind("ui") \/ HasKind("workspace"))
            /\ ret = "LocalWebWorker" => isInstalledLocally /\ HasKind("web"))
    /\ (pc = "loop") ~> Returned

\* C12 witness: a list with an entry that is none of the three kinds, and
\* 'web' not installed locally: the 'ui' entry places the extension.
C12_Witness ==
    /\ Returned
    /\ extensionKinds = <<"unknown", "web", "ui">>
    /\ isInstalledRemotely /\ ~isInstalledLocally
    /\ preference = "Local"
    /\ idx = 4
    /\ ret = "Remote"

\* ---------------------------------------------------------------------------
\* Properties of the preload bridge
\* ---------------------------------------------------------------------------

\* the six methods of the exposed ipcRenderer
IpcBridgeMethods ==
    {"ipcRenderer.send", "ipcRenderer.postMessage", "ipcRenderer.invoke",
     "ipcRenderer.on", "ipcRenderer.once", "ipcRenderer.removeListener"}

\* the channel is a string whose first seven characters are v s c o d e :
StartsWithVscode(channel) ==
    /\ "chars" \in DOMAIN channel
    /\ Len(channel.chars) >= 7
    /\ channel.chars[1] = "v" /\ channel.chars[2] = "s" /\ channel.chars[3] = "c"
    /\ channel.chars[4] = "o" /\ channel.chars[5] = "d" /\ channel.chars[6] = "e"
    /\ channel.chars[7] = ":"

\* the calls of ipcRenderer among the calls of the last step
IpcHostCalls ==
    {hostCalls[j] : j \in {i \in 1..Len(hostCalls) : "channel" \in DOMAIN hostCalls[i]}}

\* C6: a call of one of the six exposed ipcRenderer methods with a channel
\* that is missing, empty or does not start with 'vscode:' throws and calls
\* nothing of Electron's ipcRenderer; every channel handed to Electron's
\* ipcRenderer, by whatever step, starts with 'vscode:'.
C6_ChannelPrefixEnforced ==
    /\ (op.name \in IpcBridgeMethods /\ ~StartsWithVscode(op.channel))
          => (threw /\ hostCalls = <<>>)
    /\ \A call \in IpcHostCalls : StartsWithVscode(call.channel)

\* C6 witness: on('xvscode:a', listener) has thrown and nothing was
\* registered.
C6_Witness ==
    /\ op.name = "ipcRenderer.on"
    /\ op.channel = Str(<<"x", "v", "s", "c", "o", "d", "e", ":", "a">>)
    /\ threw
    /\ hostCalls = <<>>
    /\ ipcListeners = <<>>

\* names of the calls on the exposed bridge
BridgeCalls ==
    IpcBridgeMethods \cup
    {"webFrame.setZoomLevel", "crashReporter.addExtraParameter",
     "process.resolveEnv", "process.getProcessMemoryInfo", "process.on"}

\* C7 as stated: no call on the exposed bridge, and no answer of the main
\* process on 'vscode:acceptShellEnv', changes what the process.env getter
\* returns.
C7_AsStated ==
    [][op'.name \in BridgeCalls \cup {"main.acceptShellEnv"}
          => ProcessEnvGetter' = ProcessEnvGetter]_vars

\* C7: what the process.env getter returns changes only in a resolveEnv call
\* that finds no cached promise, in the run of the listener that call has
\* registered on 'vscode:acceptShellEnv', and when the window configuration
\* arrives; every other call on the bridge, a later resolveEnv included,
\* leaves it as it is.
C7_EnvChangesOnlyByResolveEnv ==
    [][ProcessEnvGetter' # ProcessEnvGetter
          => \/ op'.name = "process.resolveEnv" /\ resolvedEnv = 0
             \/ /\ op'.name = "main.acceptShellEnv"
                /\ resolvedEnv # 0
                /\ promises[resolvedEnv] = "pending"
                /\ promises'[resolvedEnv] = "resolved"
             \/ op'.name = "main.configuration" /\ configuration = "pending"]_vars

\* C7 witness: a second resolveEnv call, with another userEnv, has returned
\* and process.env still holds what the first call assigned.
C7_Witness ==
    /\ op.name = "process.resolveEnv"
    /\ op.userEnv["PATH"] = "user2"
    /\ hostCalls = <<>>
    /\ configuration = "rejected"
    /\ promises = <<"pending">>
    /\ ProcessEnvGetter["PATH"] = "user1"
    /\ ProcessEnvGetter["LANG"] = "os"

\* the calls of node's process.on among the calls of the last step
ProcessOnHostCalls ==
    {hostCalls[j] : j \in {i \in 1..Len(hostCalls) : hostCalls[i].api = "process.on"}}

\* C8: the exposed process.on(type, callback) throws for every type but
\* 'uncaughtException' and then registers nothing on node's process; for
\* 'uncaughtException' it registers the callback; no step registers a
\* listener of another type.
C8_ProcessEventTypeEnforced ==
    /\ op.name = "process.on"
          => IF op.type = "uncaughtException"
             THEN ~threw /\ Len(hostCalls) = 1 /\ hostCalls[1].api = "process.on"
             ELSE threw /\ hostCalls = <<>>
    /\ \A call \in ProcessOnHostCalls : call.type = "uncaughtException"

\* C8 witness: process.on('exit', callback) has thrown.
C8_Witness ==
    /\ op.name = "process.on"
    /\ op.type = "exit"
    /\ threw
    /\ hostCalls = <<>>

\* the listeners made by resolveEnv that are registered now
ShellEnvListenersNow ==
    {j \in 1..Len(ipcListeners) : IsShellEnvListener(ipcListeners[j])}

\* C9: resolveEnv sends 'vscode:fetchShellEnv' at most once and registers at
\* most one 'vscode:acceptShellEnv' listener, it makes at most one promise,
\* and every call returns that promise.
C9_ResolveEnvOnce ==
    /\ shellEnvFetches <= 1
    /\ shellEnvListeners <= 1
    /\ Cardinality(ShellEnvListenersNow) <= 1
    /\ Len(promises) <= 1
    /\ resolvedEnv \in {0, 1}
    /\ op.name = "process.resolveEnv"
          => /\ retVal = 1
             /\ resolvedEnv = 1
             /\ shellEnvFetches = 1
             /\ shellEnvListeners = 1

\* C9 witness: a resolveEnv call after the shell environment has arrived,
\* with a userEnv other than the first call's, returns the first promise and
\* calls nothing.
C9_Witness ==
    /\ op.name = "process.resolveEnv"
    /\ op.userEnv["LANG"] = "user2"
    /\ ProcessEnvGetter["LANG"] = "shell"
    /\ promises = <<"resolved">>
    /\ retVal = 1
    /\ hostCalls = <<>>
    /\ shellEnvFetches = 1

\* the promise of resolveEnv resolves in this step
ResolvedEnvResolves ==
    /\ resolvedEnv # 0
    /\ promises[resolvedEnv] = "pending"
    /\ promises'[resolvedEnv] = "resolved"

\* the userEnv kept by the listener that resolves the promise of resolveEnv:
\* the argument of the call that made the promise
UserEnvOfFirstCall ==
    LET j == CHOOSE i \in ShellEnvListenersNow : ipcListeners[i].fn.promise = resolvedEnv
    IN ipcListeners[j].fn.userEnv

\* C10 as stated: when the promise resolves, process.env has the value of
\* userEnv for every key of the userEnv of every caller that waits on it.
C10_AsStated ==
    [][ResolvedEnvResolves
          => \A userEnv \in waiters : \A k \in EnvKeys :
                userEnv[k] # Absent => processEnv'[k] = userEnv[k]]_vars

\* C10: when the promise resolves, process.env has, for every key of the
\* userEnv of the first resolveEnv call, the value of that userEnv, also
\* where the shell environment defines the key, and for every other key of
\* the shell environment the shell value.
C10_FirstUserEnvWins ==
    [][ResolvedEnvResolves
          => \A k \in EnvKeys :
                /\ UserEnvOfFirstCall[k] # Absent
                      => processEnv'[k] = UserEnvOfFirstCall[k]
                /\ (UserEnvOfFirstCall[k] = Absent /\ op'.shellEnv[k] # Absent)
                      => processEnv'[k] = op'.shellEnv[k]]_vars

\* C10 witness: the promise has resolved; userEnv and the shell environment
\* both define PATH and process.env has the value of userEnv, LANG comes
\* from the shell.
C10_Witness ==
    /\ op.name = "main.acceptShellEnv"
    /\ op.shellEnv["PATH"] = "shell"
    /\ configuration = "rejected"
    /\ promises = <<"resolved">>
    /\ ipcListeners = <<>>
    /\ processEnv["PATH"] = "user1"
    /\ processEnv["LANG"] = "shell"

\* ---------------------------------------------------------------------------
\* Properties of the remote init data
\* ---------------------------------------------------------------------------

\* C11: when getInitData of the remote extension host's data provider has
\* resolved, the value it returned is the _remoteInitData saved by
\* _scanAndHandleExtensions and is not null, whatever getEnvironment()
\* resolved with.
C11_RemoteInitDataPopulated ==
    (HasRemoteExtensionHost /\ remoteGetInitData.state = "resolved")
        => /\ remoteGetInitData.value = remoteInitData
           /\ remoteGetInitData.value # Null

====
